---- MODULE Spec2Model ----
(***************************************************************************)
(* A model of dp3tsrv: the bucketed append-only CCN store (src/store.rs),  *)
(* the ratchet (src/ccn.rs) and the matching query of the check route      *)
(* (src/server.rs).                                                        *)
(*                                                                         *)
(* Time is the wall clock in unix seconds.  A contact code is a natural    *)
(* number standing for its 32 bytes.  A bucket file is a sequence of       *)
(* chunks [sum, ccn, bytes]: a whole record has bytes = RecordLen, a       *)
(* truncated one fewer.  The cache is the BTreeMap under the RwLock: a     *)
(* function from the loaded bucket indexes to sets of codes.  denied is    *)
(* the set of buckets whose file the process has no permission to open.    *)
(***************************************************************************)
EXTENDS Integers, Sequences, FiniteSets, Bags, TLC

VARIABLES now, files, denied, cache, tasks, ops, ticks, restarts, chk, streams, codec

vars == <<now, files, denied, cache, tasks, ops, ticks, restarts, chk, streams, codec>>

storeVars == <<now, files, denied, cache, tasks, ops, ticks, restarts>>

(***************************************************************************)
(* Program constants.                                                      *)
(***************************************************************************)
DAYS_WINDOW == 21

HourSecs == 3600

HoursPerDay == 24

RecordLen == 36

BufCapacity == 8192

CheckDays == 14

CheckTcns == 1440

CcnLen == 32

CcnTextLen == 43

TcnLen == 16

TcnTextLen == 22

(***************************************************************************)
(* Bounds of the model.                                                    *)
(***************************************************************************)
NumCodes == 2

MaxOps == 3

MaxTicks == 2

MaxRestarts == 1

MaxRangeOps == 2

MaxConcOps == 3

MaxBulk == 229

MaxItems == 3

MaxExtra == 1

NumRoots == 2

Codes == 1..NumCodes

StartTime == 1000 * HourSecs + 1800

Min(S) == CHOOSE x \in S : \A y \in S : x <= y

(***************************************************************************)
(* Records and files.                                                      *)
(***************************************************************************)
\* crc32::checksum_ieee over the 32 payload bytes: an injective stand-in.
checksum_ieee(c) == 31 * c + 7

\* Mutant: the payload is written without its checksum.
EncodeRecordPayloadOnly(c) == [sum |-> 0, ccn |-> c, bytes |-> RecordLen - 4]

\* The 36 bytes add_ccn builds: put_u32_le(checksum) then the payload.
EncodeRecord(c) == [sum |-> checksum_ieee(c), ccn |-> c, bytes |-> RecordLen]

\* fs::File::open on a path with no file fails and the bucket reads as empty.
FileOf(fs, b) == IF b \in DOMAIN fs THEN fs[b] ELSE <<>>

\* Mutant: the file is opened without append and holds the last write only.
FilePutTruncating(fs, b, f) ==
    [x \in DOMAIN fs \cup {b} |-> IF x = b THEN <<f[Len(f)]>> ELSE fs[x]]

FilePut(fs, b, f) == [x \in DOMAIN fs \cup {b} |-> IF x = b THEN f ELSE fs[x]]

RECURSIVE SumBytes(_, _, _)
SumBytes(f, lo, hi) ==
    IF lo > hi THEN 0
    ELSE IF lo = hi THEN f[lo].bytes
    ELSE LET mid == (lo + hi) \div 2
         IN  SumBytes(f, lo, mid) + SumBytes(f, mid + 1, hi)

FileLen(f) == SumBytes(f, 1, Len(f))

\* What one BufReader::read(&mut [0u8; 36]) returns at file offset off of a
\* file of len bytes when every earlier read returned 36: the reader refills
\* its BufCapacity buffer only when it is empty and hands out what is left
\* of it, at most 36 bytes.
ReadLen(off, len) ==
    LET fill == (off \div BufCapacity) * BufCapacity
        end  == IF fill + BufCapacity < len THEN fill + BufCapacity ELSE len
        left == end - off
    IN  IF left < RecordLen THEN left ELSE RecordLen

\* The index of the first chunk that is not a whole record (Len + 1: none).
FirstPartial(f) ==
    Min({j \in 1..Len(f) : f[j].bytes # RecordLen} \cup {Len(f) + 1})

\* The 36 bytes the j-th read decodes.  While every chunk before and at j is
\* whole the window is the j-th record; after a truncated chunk the window
\* straddles two chunks and its first four bytes are no checksum of the rest.
Decoded(f, j) ==
    IF j < FirstPartial(f) THEN [sum |-> f[j].sum, ccn |-> f[j].ccn]
    ELSE [sum |-> 0, ccn |-> 0]

\* The read loop of ensure_bucket_loaded over one file: Ok(set) or the
\* InvalidData error of the first short read or bad checksum.
LoadFile(f) ==
    LET len   == FileLen(f)
        reads == 1..((len + RecordLen - 1) \div RecordLen)
        bad   == {j \in reads :
                    \/ ReadLen((j - 1) * RecordLen, len) # RecordLen
                    \/ Decoded(f, j).sum # checksum_ieee(Decoded(f, j).ccn)}
    IN  IF bad = {}
        THEN [ok |-> TRUE, set |-> {f[j].ccn : j \in reads}]
        ELSE [ok |-> FALSE, set |-> {}]

\* A file of whole records with matching checksums.
WellFormed(f) ==
    \A j \in 1..Len(f) :
        f[j].bytes = RecordLen /\ f[j].sum = checksum_ieee(f[j].ccn)

CodesIn(f) == {f[j].ccn : j \in 1..Len(f)}

(***************************************************************************)
(* The cache.                                                              *)
(***************************************************************************)
EmptyCache == [b \in {} |-> {}]

\* BTreeMap::insert: the entry is set, an existing one replaced.
CacheInsert(c, b, s) ==
    [x \in DOMAIN c \cup {b} |-> IF x = b THEN s ELSE c[x]]

\* Mutant: the entry is replaced by a set of the one code.
CacheAddFresh(c, b, ccn) == CacheInsert(c, b, {ccn})

\* entry(bucket).or_insert_with(Default::default).insert(ccn)
CacheAdd(c, b, ccn) ==
    CacheInsert(c, b, (IF b \in DOMAIN c THEN c[b] ELSE {}) \cup {ccn})

(***************************************************************************)
(* Clock and ranges.                                                       *)
(***************************************************************************)
current_bucket(t) == t \div HourSecs

\* (timestamp.timestamp() as u64) / 3600.  A timestamp before the epoch
\* casts to at least 2^63, whose bucket lies beyond every bucket the clock
\* can show: it is modelled by a bucket past the model's last clock value.
WrappedBucket == current_bucket(StartTime) + (MaxTicks + 2) * HoursPerDay * DAYS_WINDOW

TimestampBucket(ts) == IF ts < 0 THEN WrappedBucket ELSE ts \div HourSecs

\* Mutant: the bound of the range is off by one.
RangeCheckOffByOne(start, end) ==
    IF start > end THEN "empty"
    ELSE IF end - start > HoursPerDay * DAYS_WINDOW + 1 THEN "too_far"
    ELSE "scan"

\* Mutant: a wrapping subtraction, which makes a future bucket a huge range.
RangeCheckWrapping(start, end) ==
    IF start > end \/ end - start > HoursPerDay * DAYS_WINDOW THEN "too_far"
    ELSE "scan"

\* The match on bucket_end.checked_sub(bucket_start) of fetch_buckets.
RangeCheck(start, end) ==
    IF start > end THEN "empty"
    ELSE IF end - start > HoursPerDay * DAYS_WINDOW THEN "too_far"
    ELSE "scan"

\* (now - DAYS_WINDOW)..now of has_ccn, as first and last bucket.
HasRange(n) == [lo |-> n - DAYS_WINDOW, hi |-> n - 1]

(***************************************************************************)
(* A request task.  pc is the task's position in its handler; lo, i and hi *)
(* are the bucket loop's first bucket, variable and last bucket; ret is the*)
(* handler's result; rv is the Vec fetch_buckets collects, as a bag; at is the clock *)
(* the handler read at its top; seen is the set of <<code, bucket>>        *)
(* records on disk when the handler was called; had tells whether the     *)
(* bucket was in the map when the handler's last load inserted it.         *)
(***************************************************************************)
IdleTask ==
    [op |-> "none", pc |-> "idle", ccn |-> 0, ts |-> 0, lo |-> 0, i |-> 0, hi |-> 0,
     bkt |-> 0, at |-> 0, ret |-> "none", rv |-> EmptyBag, seen |-> {}, had |-> FALSE]

\* The <<code, bucket>> pairs that have a record on disk.
Records(fs) == UNION {{<<fs[b][j].ccn, b>> : j \in 1..Len(fs[b])} : b \in DOMAIN fs}

Finish(t, r) == [t EXCEPT !.pc = "done", !.ret = r]

\* The top of fetch_buckets: the two buckets and the match on their distance.
FetchStart(t, clock) ==
    LET start == TimestampBucket(t.ts)
        end   == current_bucket(clock)
        kind  == RangeCheck(start, end)
        t1    == [t EXCEPT !.at = clock, !.lo = start, !.i = start, !.hi = end]
    IN  CASE kind = "empty"   -> Finish(t1, "ok")
          [] kind = "too_far" -> Finish(t1, "invalid_input")
          [] OTHER            -> [t1 EXCEPT !.pc = "check"]

\* The top of has_ccn: now = current_bucket() and the range of the loop.
HasStart(t, clock) ==
    LET r == HasRange(current_bucket(clock))
    IN  IF r.lo <= r.hi
        THEN [t EXCEPT !.at = clock, !.lo = r.lo, !.i = r.lo, !.hi = r.hi, !.pc = "check"]
        ELSE IF t.op = "add" THEN [t EXCEPT !.at = clock, !.pc = "add_bucket"]
        ELSE Finish([t EXCEPT !.at = clock], "false")

\* Mutant: the loop leaves out the last bucket of its range.
LoopNextExclusive(t) ==
    IF t.i + 1 < t.hi THEN [t EXCEPT !.i = @ + 1, !.pc = "check"]
    ELSE CASE t.op = "fetch" -> Finish(t, "ok")
           [] t.op = "has"   -> Finish(t, "false")
           [] OTHER          -> [t EXCEPT !.pc = "add_bucket"]

\* The end of one pass of a bucket loop: the next bucket, or what follows
\* the loop (fetch_buckets returns rv, has_ccn returns false, add_ccn goes on
\* to its write).
LoopNext(t) ==
    IF t.i + 1 <= t.hi THEN [t EXCEPT !.i = @ + 1, !.pc = "check"]
    ELSE CASE t.op = "fetch" -> Finish(t, "ok")
           [] t.op = "has"   -> Finish(t, "false")
           [] OTHER          -> [t EXCEPT !.pc = "add_bucket"]

\* ensure_bucket_loaded, under the read lock: is the bucket in the map?
CheckStep(w) ==
    [w EXCEPT !.task.pc = IF w.task.i \in DOMAIN w.cache THEN "get" ELSE "load",
              !.task.had = FALSE]

\* fs::File::open(path): Ok, or the error of a missing or unreadable file.
OpenFile(w, b) ==
    IF b \notin DOMAIN w.files THEN "not_found"
    ELSE IF b \in w.denied THEN "permission_denied"
    ELSE "ok"

\* ensure_bucket_loaded, under the write lock: read the file, insert the set.
\* An error of the read loop returns from the handler (the ? of the callers)
\* with no insert; when the open is not Ok the if let is skipped and the set
\* stays empty.
LoadStep(w) ==
    LET r == IF OpenFile(w, w.task.i) = "ok"
             THEN LoadFile(w.files[w.task.i])
             ELSE [ok |-> TRUE, set |-> {}]
    IN  IF r.ok
        THEN [w EXCEPT !.cache = CacheInsert(w.cache, w.task.i, r.set),
                       !.task.pc = "get",
                       !.task.had = w.task.i \in DOMAIN w.cache]
        ELSE [w EXCEPT !.task = Finish(w.task, "invalid_data")]

\* The if let Some(set) = buckets.read().get(&bucket) of the two loops.
GetStep(w) ==
    LET t   == w.task
        set == IF t.i \in DOMAIN w.cache THEN w.cache[t.i] ELSE {}
    IN  IF t.op = "fetch"
        THEN [w EXCEPT !.task = LoopNext([t EXCEPT !.rv = @ (+) SetToBag(set)])]
        ELSE IF t.ccn \in set
        THEN [w EXCEPT !.task = Finish(t, IF t.op = "has" THEN "true" ELSE "false")]
        ELSE [w EXCEPT !.task = LoopNext(t)]

\* add_ccn after has_ccn said no, under the write lock: append the record to
\* the file of the bucket read from the clock, insert the code in the map.
\* OpenOptions::open(&path)? returns the error of a file it may not open.
WriteStep(w) ==
    LET t == w.task
    IN  IF OpenFile(w, t.bkt) = "permission_denied"
        THEN [w EXCEPT !.task = Finish(t, "io_error")]
        ELSE
        [w EXCEPT !.files = FilePut(w.files, t.bkt,
                                Append(FileOf(w.files, t.bkt), EncodeRecord(t.ccn))),
                  !.cache = CacheAdd(w.cache, t.bkt, t.ccn),
                  !.task  = Finish(t, "true")]

\* One step of a running task: w is [cache, files, task].
StepW(w, clock) ==
    CASE w.task.pc = "fetch_start" -> [w EXCEPT !.task = FetchStart(w.task, clock)]
      [] w.task.pc = "has_start"   -> [w EXCEPT !.task = HasStart(w.task, clock)]
      [] w.task.pc = "check"       -> CheckStep(w)
      [] w.task.pc = "load"        -> LoadStep(w)
      [] w.task.pc = "get"         -> GetStep(w)
      [] w.task.pc = "add_bucket"  ->
            [w EXCEPT !.task.bkt = current_bucket(clock), !.task.pc = "add_write"]
      [] w.task.pc = "add_write"   -> WriteStep(w)
      [] OTHER                     -> w

Running(t) == t.pc \notin {"idle", "done"}

\* A handler run from its call to its return with the clock standing still.
RECURSIVE Run(_, _)
Run(w, clock) == IF Running(w.task) THEN Run(StepW(w, clock), clock) ELSE w

\* The task record of a fresh call.
NewTask(op, c, ts) ==
    [IdleTask EXCEPT !.op = op, !.ccn = c, !.ts = ts,
                     !.pc = IF op = "fetch" THEN "fetch_start" ELSE "has_start"]

(***************************************************************************)
(* The state after CcnStore::open on a fresh directory: no bucket file, an *)
(* empty map, and the request tasks of the runtime idle.                   *)
(***************************************************************************)
\* The iterators of generate_ccns and generate_tcns a caller holds: none yet.
NumStreams == 2

NoCode == [root |-> 0, gen |-> 0]

IdleStream == [kind |-> "none", src |-> NoCode, cur |-> NoCode, out |-> <<>>]

IdleStreams == [s \in 1..NumStreams |-> IdleStream]

\* The conversion in progress: none.
IdleCodec ==
    [kind |-> "none", from |-> "none", stage |-> "idle", bytes |-> <<>>,
     text |-> <<>>, back |-> <<>>, strict |-> FALSE]

IdleCheck ==
    [contacts |-> {}, active |-> <<>>, pc |-> "idle", ret |-> "none",
     generated |-> 0, codes |-> 0]

InitStore(T) ==
    /\ now = StartTime
    /\ files = [b \in {} |-> <<>>]
    /\ denied = {}
    /\ cache = EmptyCache
    /\ tasks = [t \in T |-> IdleTask]
    /\ ops = 0
    /\ ticks = 0
    /\ restarts = 0
    /\ chk = IdleCheck
    /\ streams = IdleStreams
    /\ codec = IdleCodec

World(t) == [cache |-> cache, files |-> files, denied |-> denied, task |-> t]

Called(op, c, ts) ==
    [NewTask(op, c, ts) EXCEPT !.seen = IF op = "fetch" THEN Records(files) ELSE {}]

\* Codes are interchangeable: a request brings a code that is in a file or in
\* a task, or the least code that is in none.
KnownCodes ==
    {p[1] : p \in Records(files)} \cup {tasks[t].ccn : t \in DOMAIN tasks}

Canonical(c) == \A d \in 1..(c - 1) : d \in KnownCodes

\* A request is routed to its handler, which runs to its return.
Serve(t, op, c, ts) ==
    /\ ~Running(tasks[t])
    /\ LET w == Run(World(Called(op, c, ts)), now)
       IN  /\ cache' = w.cache
           /\ files' = w.files
           /\ tasks' = [tasks EXCEPT ![t] = w.task]
    /\ ops' = ops + 1
    /\ UNCHANGED <<now, denied, ticks, restarts, chk, streams, codec>>

\* A request is routed to its handler on task t.
Call(t, op, c, ts) ==
    /\ ~Running(tasks[t])
    /\ tasks' = [tasks EXCEPT ![t] = Called(op, c, ts)]
    /\ ops' = ops + 1
    /\ UNCHANGED <<now, files, denied, cache, ticks, restarts, chk, streams, codec>>

\* Task t takes the next step of its handler.
Step(t) ==
    /\ Running(tasks[t])
    /\ LET w == StepW(World(tasks[t]), now)
       IN  /\ cache' = w.cache
           /\ files' = w.files
           /\ tasks' = [tasks EXCEPT ![t] = w.task]
    /\ UNCHANGED <<now, denied, ops, ticks, restarts, chk, streams, codec>>

\* The wall clock advances by d seconds.
Tick(d, limit) ==
    /\ ticks < limit
    /\ now' = now + d
    /\ ticks' = ticks + 1
    /\ UNCHANGED <<files, denied, cache, tasks, ops, restarts, chk, streams, codec>>

\* The process stops and starts again on the same directory: open builds a
\* store with an empty map, and the requests in flight are gone.
Restart ==
    /\ restarts < MaxRestarts
    /\ cache' = EmptyCache
    /\ tasks' = [t \in DOMAIN tasks |-> IdleTask]
    /\ restarts' = restarts + 1
    /\ UNCHANGED <<now, files, denied, ops, ticks, chk, streams, codec>>

Malformed == {b \in DOMAIN files : ~WellFormed(files[b])}

\* Something outside the process damages a record of a file the process has
\* not loaded (damage to a loaded bucket is never read back), one file at a
\* time: a flipped bit in the checksum or in the payload, or a truncated last
\* record.
Damage(b, j, kind) ==
    /\ b \in DOMAIN files /\ b \notin DOMAIN cache
    /\ Malformed = {}
    /\ j \in 1..Len(files[b])
    /\ \A t \in DOMAIN tasks : ~Running(tasks[t])
    /\ CASE kind = "sum" ->
              files' = [files EXCEPT ![b][j].sum = @ + 1]
         [] kind = "payload" ->
              \E c \in Codes \ {files[b][j].ccn} :
                  files' = [files EXCEPT ![b][j].ccn = c]
         [] OTHER ->
              /\ j = Len(files[b])
              /\ \E n \in {1, RecordLen - 1} :
                  files' = [files EXCEPT ![b][j].bytes = n]
    /\ UNCHANGED <<now, denied, cache, tasks, ops, ticks, restarts, chk, streams, codec>>

\* The operator repairs a damaged file by dropping its bad records.
Repair(b) ==
    /\ b \in Malformed
    /\ files' = [files EXCEPT ![b] = SelectSeq(@, LAMBDA r :
                     r.bytes = RecordLen /\ r.sum = checksum_ieee(r.ccn))]
    /\ UNCHANGED <<now, denied, cache, tasks, ops, ticks, restarts, chk, streams, codec>>

(***************************************************************************)
(* Spec: one request at a time, each handler run to its return, with the   *)
(* clock and restarts between requests.  SpecDamage adds damage to the     *)
(* files, and their repair, from outside the process.                      *)
(***************************************************************************)
NearStamps ==
    {now + 1, now + HourSecs, now, now - HourSecs, now - (DAYS_WINDOW + 1) * HourSecs}

TickSteps == {HourSecs, DAYS_WINDOW * HourSecs}

Submit(c) == ops < MaxOps /\ Canonical(c) /\ Serve(1, "add", c, 0)

Query(c) == ops < MaxOps /\ Canonical(c) /\ Serve(1, "has", c, 0)

Fetch(ts) == ops < MaxOps /\ Serve(1, "fetch", 0, ts)

Init == InitStore({1})

Next ==
    \/ \E c \in Codes : Submit(c)
    \/ \E c \in Codes : Query(c)
    \/ \E ts \in NearStamps : Fetch(ts)
    \/ \E d \in TickSteps : Tick(d, MaxTicks)
    \/ Restart

Spec == Init /\ [][Next]_vars

NextDamage ==
    \/ Next
    \/ \E b \in DOMAIN files, j \in 1..MaxOps, kind \in {"sum", "payload", "truncate"} :
           Damage(b, j, kind)
    \/ \E b \in DOMAIN files : Repair(b)

SpecDamage == Init /\ [][NextDamage]_vars

(***************************************************************************)
(* SpecPerm: Spec with the permissions of a bucket file taken away and     *)
(* given back from outside the process.  A file loses its permissions      *)
(* while its bucket is not in the map, one file at a time.                 *)
(***************************************************************************)
Deny(b) ==
    /\ b \in DOMAIN files /\ b \notin DOMAIN cache
    /\ denied = {}
    /\ denied' = {b}
    /\ UNCHANGED <<now, files, cache, tasks, ops, ticks, restarts, chk, streams, codec>>

Allow(b) ==
    /\ b \in denied
    /\ denied' = denied \ {b}
    /\ UNCHANGED <<now, files, cache, tasks, ops, ticks, restarts, chk, streams, codec>>

NextPerm ==
    \/ Next
    \/ \E b \in DOMAIN files : Deny(b)
    \/ \E b \in denied : Allow(b)

SpecPerm == Init /\ [][NextPerm]_vars

(***************************************************************************)
(* SpecRange: one request task, step by step, with fetch_buckets called on *)
(* timestamps near the clock, 21 days back, and before the epoch.          *)
(***************************************************************************)
WindowSecs == HoursPerDay * DAYS_WINDOW * HourSecs

RangeStamps ==
    {now + 1, now + HourSecs, now, now - WindowSecs - 1,
     now - WindowSecs - HourSecs, 0 - 1}

NextRange ==
    \/ \E c \in Codes : ops < MaxRangeOps /\ Canonical(c) /\ Call(1, "add", c, 0)
    \/ \E ts \in RangeStamps : ops < MaxRangeOps /\ Call(1, "fetch", 0, ts)
    \/ Step(1)
    \/ Tick(HourSecs \div 2, MaxTicks)

SpecRange == Init /\ [][NextRange]_vars

(***************************************************************************)
(* SpecConc: two request tasks whose handlers interleave step by step, a   *)
(* step being what a handler does under one acquisition of the lock (or    *)
(* one reading of the clock).  A request goes to the first task that is    *)
(* not running, and the clock passes one hour boundary at most while the   *)
(* requests run.                                                           *)
(***************************************************************************)
ConcStamps == {now, now - HourSecs}

FreeTask(t) ==
    /\ ~Running(tasks[t])
    /\ \A u \in DOMAIN tasks : u < t => Running(tasks[u])

CallAdd(t, c) ==
    ops < MaxConcOps /\ FreeTask(t) /\ Canonical(c) /\ Call(t, "add", c, 0)

CallFetch(t, ts) == ops < MaxConcOps /\ FreeTask(t) /\ Call(t, "fetch", 0, ts)

InitConc == InitStore({1, 2})

NextConc ==
    \/ \E t \in DOMAIN tasks, c \in Codes : CallAdd(t, c)
    \/ \E t \in DOMAIN tasks, ts \in ConcStamps : CallFetch(t, ts)
    \/ \E t \in DOMAIN tasks : Step(t)
    \/ Tick(HourSecs, 1)

SpecConc == InitConc /\ [][NextConc]_vars

(***************************************************************************)
(* SpecBulk: one hour of submissions of fresh codes, each add_ccn run to   *)
(* its return, a restart, and fetch_buckets on the store that has not yet  *)
(* loaded the hour's file.                                                 *)
(***************************************************************************)
BulkSubmit ==
    /\ ops < MaxBulk
    /\ Serve(1, "add", Cardinality(Records(files)) + 1, 0)

BulkFetch ==
    /\ ops < MaxBulk + 1
    /\ current_bucket(now) \notin DOMAIN cache
    /\ Serve(1, "fetch", 0, now)

NextBulk ==
    \/ BulkSubmit
    \/ BulkFetch
    \/ Restart

SpecBulk == Init /\ [][NextBulk]_vars

(***************************************************************************)
(* The ratchet and the check route.  In the check route a code is a term   *)
(* [root, gen]: the SHA-256 ratchet applied gen times to a root code, and  *)
(* a TCN is a term [key, n]: the all-zero block encrypted n times under    *)
(* the AES key derived from code key.  Distinct terms are distinct bytes   *)
(* (no collision of the hash or the cipher).                               *)
(***************************************************************************)
\* Ccn::ratchet: the SHA-256 of the code's bytes.
Ratchet(c) == [c EXCEPT !.gen = @ + 1]

\* Mutant: the chain starts at the code itself.
FirstSuccessorSelf(c) == c

\* let mut current = self.ratchet() of generate_ccns.
FirstSuccessor(c) == Ratchet(c)

\* The block of generate_tcns before the first encryption: [0u8; 16].
ZeroBlock == [key |-> [root |-> 0, gen |-> 0], n |-> 0]

\* cipher.encrypt_block(&mut block) under the key derived from code c.
EncryptBlock(c, block) == [key |-> c, n |-> block.n + 1]

\* The m-th item of c.generate_tcns(): m encryptions of the zero block.
NthTcn(c, m) == [key |-> c, n |-> m]

\* Mutant: the loop over the TCNs of a code runs to its end before the hit
\* is acted on.
ScanTcnsWhole(c, contacts) ==
    [hit |-> \E m \in 1..CheckTcns : NthTcn(c, m) \in contacts,
     generated |-> CheckTcns]

\* for tcn in ccn.generate_tcns().take(1440): the place of the first TCN that
\* is in the contacts, and the number of TCNs generated.
ScanTcns(c, contacts) ==
    LET hits == {m \in 1..CheckTcns : NthTcn(c, m) \in contacts}
    IN  IF hits = {} THEN [hit |-> FALSE, generated |-> CheckTcns]
        ELSE [hit |-> TRUE, generated |-> Min(hits)]

\* for ccn in ccn0.generate_ccns().take(14), from the k-th item cur on: hit,
\* the number of TCNs generated and the number of codes the iterator yielded.
RECURSIVE ScanDays(_, _, _, _)
ScanDays(cur, k, contacts, generated) ==
    IF k > CheckDays
    THEN [hit |-> FALSE, generated |-> generated, codes |-> CheckDays]
    ELSE LET r == ScanTcns(cur, contacts)
         IN  IF r.hit
             THEN [hit |-> TRUE, generated |-> generated + r.generated, codes |-> k]
             ELSE ScanDays(Ratchet(cur), k + 1, contacts, generated + r.generated)

\* for ccn0 in the active codes, from the j-th on: the closure of the check
\* route, which returns true at the first TCN found and false after the loops.
RECURSIVE ScanActive(_, _, _, _)
ScanActive(active, j, contacts, generated) ==
    IF j > Len(active)
    THEN [hit |-> FALSE, generated |-> generated, codes |-> (j - 1) * CheckDays]
    ELSE LET r == ScanDays(FirstSuccessor(active[j]), 1, contacts, generated)
         IN  IF r.hit THEN [r EXCEPT !.codes = (j - 1) * CheckDays + @]
             ELSE ScanActive(active, j + 1, contacts, r.generated)

CheckContacts(contacts, active) == ScanActive(active, 1, contacts, 0)

\* The requests of SpecCheck: none, one or two active codes, which are roots
\* and their first successors, in any order; the contacts are few, among the
\* TCNs at the edges of the days and minutes the route expands.
ActiveCodes == {[root |-> r, gen |-> g] : r \in 1..NumRoots, g \in 0..1}

ActiveLists ==
    {<<>>} \cup {<<a>> : a \in ActiveCodes}
           \cup {p \in ActiveCodes \X ActiveCodes : p[1] # p[2]}

Tcn(r, g, m) == [key |-> [root |-> r, gen |-> g], n |-> m]

TcnUniverse ==
    {Tcn(1, 0, 1), Tcn(1, 1, 1), Tcn(1, CheckDays, CheckTcns),
     Tcn(1, CheckDays, CheckTcns + 1), Tcn(1, CheckDays + 1, 1),
     Tcn(1, CheckDays + 1, CheckTcns), Tcn(2, 7, 700), ZeroBlock}

ContactSets == {S \in SUBSET TcnUniverse : Cardinality(S) <= 2}

InitCheck ==
    /\ now = StartTime
    /\ files = [b \in {} |-> <<>>]
    /\ denied = {}
    /\ cache = EmptyCache
    /\ tasks = [t \in {1} |-> IdleTask]
    /\ ops = 0
    /\ ticks = 0
    /\ restarts = 0
    /\ streams = IdleStreams
    /\ codec = IdleCodec
    /\ \E S \in ContactSets, A \in ActiveLists :
          chk = [IdleCheck EXCEPT !.contacts = S, !.active = A]

\* The check route answers the request.
Check ==
    /\ chk.pc = "idle"
    /\ LET r == CheckContacts(chk.contacts, chk.active)
       IN  chk' = [chk EXCEPT !.pc = "done",
                              !.ret = IF r.hit THEN "true" ELSE "false",
                              !.generated = r.generated,
                              !.codes = r.codes]
    /\ UNCHANGED <<storeVars, streams, codec>>

NextCheck == Check

SpecCheck == InitCheck /\ [][NextCheck]_vars

(***************************************************************************)
(* SpecStream: the iterators of generate_ccns and generate_tcns.  An       *)
(* iterator is [kind, src, cur, out]: the code it was made from, the state *)
(* its closure owns (the next code, or the block), and the items it has    *)
(* yielded so far.                                                         *)
(***************************************************************************)
\* generate_ccns: the closure owns current, which starts at self.ratchet().
GenerateCcns(c) ==
    [kind |-> "ccns", src |-> c, cur |-> FirstSuccessor(c), out |-> <<>>]

\* One call of the closure: rv = current; current = current.ratchet(); rv.
CcnsNext(it) == [it EXCEPT !.out = Append(@, it.cur), !.cur = Ratchet(it.cur)]

\* generate_tcns: the closure owns the cipher keyed from self and the block,
\* which starts as sixteen zero bytes.
GenerateTcns(c) == [kind |-> "tcns", src |-> c, cur |-> ZeroBlock, out |-> <<>>]

\* Mutant: the block is yielded before it is encrypted.
TcnsNextYieldFirst(it) ==
    [it EXCEPT !.out = Append(@, it.cur), !.cur = EncryptBlock(it.src, it.cur)]

\* One call of the closure: encrypt the block in place, yield a copy of it.
TcnsNext(it) ==
    LET block == EncryptBlock(it.src, it.cur)
    IN  [it EXCEPT !.cur = block, !.out = Append(@, block)]

StreamCodes == {[root |-> r, gen |-> 0] : r \in 1..NumRoots}

OpenCcns(s, c) ==
    /\ streams' = [streams EXCEPT ![s] = GenerateCcns(c)]
    /\ UNCHANGED <<storeVars, chk, codec>>

OpenTcns(s, c) ==
    /\ streams' = [streams EXCEPT ![s] = GenerateTcns(c)]
    /\ UNCHANGED <<storeVars, chk, codec>>

\* The caller takes the next item of iterator s.
Pull(s) ==
    /\ streams[s].kind # "none"
    /\ Len(streams[s].out) < MaxItems
    /\ streams' = [streams EXCEPT ![s] =
                      IF @.kind = "ccns" THEN CcnsNext(@) ELSE TcnsNext(@)]
    /\ UNCHANGED <<storeVars, chk, codec>>

NextStream ==
    \/ \E s \in 1..NumStreams, c \in StreamCodes : OpenCcns(s, c)
    \/ \E s \in 1..NumStreams, c \in StreamCodes : OpenTcns(s, c)
    \/ \E s \in 1..NumStreams : Pull(s)

SpecStream == Init /\ [][NextStream]_vars

(***************************************************************************)
(* SpecCodec: from_bytes, Display and FromStr of Ccn and Tcn.  A byte is a *)
(* number below 256.  A text is a sequence of characters: a number below   *)
(* 64 is the character of the URL-safe alphabet with that index, 64 any    *)
(* byte outside the alphabet.  The texts are URL-safe base64 without       *)
(* padding, computed bit by bit.                                           *)
(***************************************************************************)
ByteBits == 8

SymBits == 6

\* Bit p (from 0, most significant first) of the bytes b, zero past the end.
ByteBit(b, p) ==
    IF p < ByteBits * Len(b)
    THEN (b[(p \div ByteBits) + 1] \div (2 ^ (ByteBits - 1 - (p % ByteBits)))) % 2
    ELSE 0

\* Mutant: the bits of a character are taken least significant first.
SymBitLsbFirst(t, p) ==
    IF p < SymBits * Len(t)
    THEN (t[(p \div SymBits) + 1] \div (2 ^ (p % SymBits))) % 2
    ELSE 0

\* Bit p of the characters t, six bits to a character.
SymBit(t, p) ==
    IF p < SymBits * Len(t)
    THEN (t[(p \div SymBits) + 1] \div (2 ^ (SymBits - 1 - (p % SymBits)))) % 2
    ELSE 0

\* base64::encode_config_slice(bytes, URL_SAFE_NO_PAD, buf): the characters.
Base64Encode(b) ==
    [k \in 1..((ByteBits * Len(b) + SymBits - 1) \div SymBits) |->
        LET p == SymBits * (k - 1)
        IN  32 * ByteBit(b, p) + 16 * ByteBit(b, p + 1) + 8 * ByteBit(b, p + 2)
            + 4 * ByteBit(b, p + 3) + 2 * ByteBit(b, p + 4) + ByteBit(b, p + 5)]

\* base64::decode_config_slice(text, URL_SAFE_NO_PAD, out): the bytes, or the
\* error of a byte outside the alphabet, of a length no encoding has, or
\* (strict: the releases of the crate differ) of a last character with bits
\* set beyond the last byte.
Base64Decode(t, strict) ==
    LET n     == (SymBits * Len(t)) \div ByteBits
        spare == {p \in (ByteBits * n)..(SymBits * Len(t) - 1) : SymBit(t, p) = 1}
    IN  IF \E k \in 1..Len(t) : t[k] > 63 THEN [ok |-> FALSE, bytes |-> <<>>]
        ELSE IF Len(t) % 4 = 1 THEN [ok |-> FALSE, bytes |-> <<>>]
        ELSE IF strict /\ spare # {} THEN [ok |-> FALSE, bytes |-> <<>>]
        ELSE [ok |-> TRUE,
              bytes |-> [i \in 1..n |->
                  LET p == ByteBits * (i - 1)
                  IN  128 * SymBit(t, p) + 64 * SymBit(t, p + 1)
                      + 32 * SymBit(t, p + 2) + 16 * SymBit(t, p + 3)
                      + 8 * SymBit(t, p + 4) + 4 * SymBit(t, p + 5)
                      + 2 * SymBit(t, p + 6) + SymBit(t, p + 7)]]

BytesLen(kind) == IF kind = "ccn" THEN CcnLen ELSE TcnLen

TextLen(kind) == IF kind = "ccn" THEN CcnTextLen ELSE TcnTextLen

\* from_bytes: Err unless the slice has the length of the type.
from_bytes(kind, b) == [ok |-> Len(b) = BytesLen(kind), bytes |-> b]

\* Display::fmt: the base64 of the bytes.
to_string(v) == Base64Encode(v)

\* FromStr::from_str: Err unless the text has the length of the type's
\* encoding and decodes; the decoded bytes land in the zeroed array.
from_str(kind, t, strict) ==
    IF Len(t) # TextLen(kind) THEN [ok |-> FALSE, bytes |-> <<>>]
    ELSE LET d == Base64Decode(t, strict)
         IN  IF ~d.ok THEN d
             ELSE [ok |-> TRUE,
                   bytes |-> [i \in 1..BytesLen(kind) |->
                                 IF i <= Len(d.bytes) THEN d.bytes[i] ELSE 0]]

\* The inputs: byte strings and texts of the lengths around those of the two
\* types and of no length, filled with one value and with one place changed.
Patterned(len, fill, at, v) == [i \in 1..len |-> IF i = at THEN v ELSE fill]

SampleLens(n) == {0} \cup {l \in (n - MaxExtra)..(n + MaxExtra) : l >= 0}

SampleBytes(kind) ==
    UNION {{Patterned(l, f, at, v) : f \in {0, 255}, at \in 0..l, v \in {1, 165}} :
              l \in SampleLens(BytesLen(kind))}

SampleTexts(kind) ==
    {Patterned(l, f, l, v) :
        l \in SampleLens(TextLen(kind)), f \in {0, 63, 64}, v \in {0, 1, 16, 63}}

InitCodec ==
    /\ now = StartTime
    /\ files = [b \in {} |-> <<>>]
    /\ denied = {}
    /\ cache = EmptyCache
    /\ tasks = [t \in {1} |-> IdleTask]
    /\ ops = 0
    /\ ticks = 0
    /\ restarts = 0
    /\ chk = IdleCheck
    /\ streams = IdleStreams
    /\ \E kind \in {"ccn", "tcn"} :
          \/ \E b \in SampleBytes(kind) :
                codec = [IdleCodec EXCEPT !.kind = kind, !.from = "bytes",
                                          !.stage = "bytes", !.bytes = b]
          \/ \E t \in SampleTexts(kind), strict \in BOOLEAN :
                codec = [IdleCodec EXCEPT !.kind = kind, !.from = "text",
                                          !.stage = "text", !.text = t,
                                          !.strict = strict]

FromBytes ==
    /\ codec.stage = "bytes"
    /\ codec' = [codec EXCEPT !.stage =
                    IF from_bytes(codec.kind, codec.bytes).ok THEN "value"
                    ELSE "bytes_error"]
    /\ UNCHANGED <<storeVars, chk, streams>>

Display ==
    /\ codec.stage = "value"
    /\ codec' = [codec EXCEPT !.stage = "text", !.text = to_string(codec.bytes)]
    /\ UNCHANGED <<storeVars, chk, streams>>

Parse ==
    /\ codec.stage = "text"
    /\ LET r == from_str(codec.kind, codec.text, codec.strict)
       IN  codec' = [codec EXCEPT !.stage = IF r.ok THEN "parsed" ELSE "text_error",
                                  !.back = r.bytes]
    /\ UNCHANGED <<storeVars, chk, streams>>

NextCodec ==
    \/ FromBytes
    \/ Display
    \/ Parse

SpecCodec == InitCodec /\ [][NextCodec]_vars

(***************************************************************************)
(* What the claims speak of.                                               *)
(***************************************************************************)
\* The number of whole, valid records for code c in file f.
CountValid(f, c) == Cardinality({j \in 1..Len(f) : f[j] = EncodeRecord(c)})

Returned(t, op, r) == t.pc = "done" /\ t.op = op /\ t.ret = r

\* This step of task t appends one record for the task's code to the file of
\* bucket b and leaves every other file alone.
AppendsOne(t, b) ==
    /\ DOMAIN files' = DOMAIN files \cup {b}
    /\ files'[b] = Append(FileOf(files, b), EncodeRecord(tasks[t].ccn))
    /\ \A x \in DOMAIN files \ {b} : files'[x] = files[x]

\* This step is the return of add_ccn with true on task t.
ReturnsAdded(t) == Running(tasks[t]) /\ Returned(tasks'[t], "add", "true")

\* The places, in the order of the three loops of the check route, of the
\* contacts that some active code expands to.
HitPlaces ==
    {(p[1] - 1) * CheckDays * CheckTcns
        + (p[2].key.gen - chk.active[p[1]].gen - 1) * CheckTcns + p[2].n :
     p \in {q \in (1..Len(chk.active)) \X chk.contacts :
               /\ q[2].key.root = chk.active[q[1]].root
               /\ q[2].key.gen - chk.active[q[1]].gen \in 1..CheckDays
               /\ q[2].n \in 1..CheckTcns}}

\* ratchet applied i times.
RECURSIVE RatchetTimes(_, _)
RatchetTimes(c, i) == IF i = 0 THEN c ELSE Ratchet(RatchetTimes(c, i - 1))

\* Two iterators made from the same code agree on the items both yielded.
SameItems(kind) ==
    \A s, u \in 1..NumStreams :
        (streams[s].kind = kind /\ streams[u].kind = kind
            /\ streams[s].src = streams[u].src)
        => \A i \in 1..Len(streams[s].out) :
               i <= Len(streams[u].out) => streams[s].out[i] = streams[u].out[i]

\* C1 (as claimed): an add_ccn(c) that returns true leaves exactly one record
\* for c in the bucket files of the recency horizon, the current hour's file
\* included: a second add_ccn(c) in the horizon returns false and writes
\* nothing.
C1_DedupOneRecord ==
    \A t \in DOMAIN tasks :
        Returned(tasks[t], "add", "true") =>
            \A b \in (tasks[t].bkt - DAYS_WINDOW)..tasks[t].bkt :
                CountValid(FileOf(files, b), tasks[t].ccn)
                    = (IF b = tasks[t].bkt THEN 1 ELSE 0)

\* C3 (as claimed): a successful fetch_buckets returns every code that has a
\* record in the (undamaged) file of a bucket of its range, also after a
\* restart and whatever was called since.
C3_FetchReturnsFileContents ==
    \A t \in DOMAIN tasks :
        Returned(tasks[t], "fetch", "ok") =>
            \A b \in tasks[t].lo..tasks[t].hi :
                WellFormed(FileOf(files, b)) =>
                    \A c \in CodesIn(FileOf(files, b)) : BagIn(c, tasks[t].rv)

\* C5 (as claimed): while a bucket's file holds a record with a bad checksum
\* or ends in a partial record, every operation that needs the bucket fails:
\* no fetch_buckets over the bucket returns Ok.
C5_CorruptBucketKeepsFailing ==
    \A t \in DOMAIN tasks :
        Returned(tasks[t], "fetch", "ok") =>
            \A b \in tasks[t].lo..tasks[t].hi : WellFormed(FileOf(files, b))

\* C10 (as claimed): add_ccn(c) returns false when c was added in one of the
\* 504 hour buckets (21 days) before the current one.
C10_DedupTwentyOneDays ==
    \A t \in DOMAIN tasks :
        Returned(tasks[t], "add", "true") =>
            \A b \in (tasks[t].bkt - HoursPerDay * DAYS_WINDOW)..(tasks[t].bkt - 1) :
                CountValid(FileOf(files, b), tasks[t].ccn) = 0

\* C2: a fetch_buckets that returns Ok contains every code whose add_ccn had
\* returned true, in a bucket of the fetch's range, before the fetch was
\* called, whatever the other task did in between.
C2_ReadYourWrites ==
    \A t \in DOMAIN tasks :
        Returned(tasks[t], "fetch", "ok") =>
            \A p \in tasks[t].seen :
                (tasks[t].lo <= p[2] /\ p[2] <= tasks[t].hi) => BagIn(p[1], tasks[t].rv)

C2_Witness ==
    \E t \in DOMAIN tasks :
        /\ Returned(tasks[t], "fetch", "ok")
        /\ \E p \in tasks[t].seen :
              tasks[t].lo <= p[2] /\ p[2] <= tasks[t].hi /\ BagIn(p[1], tasks[t].rv)
        /\ \E u \in DOMAIN tasks : u # t /\ tasks[u].op = "add" /\ tasks[u].pc = "add_write"

\* C9 (as claimed): a load under the write lock inserts the entry of a bucket
\* that has none: no step of ensure_bucket_loaded reads the file of a bucket
\* that is already in the map and replaces its entry.
C9_LoadAtMostOnce ==
    [][\A t \in DOMAIN tasks :
          (tasks[t].pc = "load" /\ tasks'[t].pc = "get")
              => tasks[t].i \notin DOMAIN cache]_vars

C7_FutureIsEmpty ==
    \A t \in DOMAIN tasks :
        (/\ tasks[t].pc = "done" /\ tasks[t].op = "fetch"
         /\ tasks[t].ts > tasks[t].at)
            => tasks[t].ret = "ok" /\ tasks[t].rv = EmptyBag

\* C7 (amended): fetch_buckets of a timestamp in an hour bucket later than
\* the clock's bucket returns Ok with no code in it, whatever the store holds.
C7_FutureBucketIsEmpty ==
    \A t \in DOMAIN tasks :
        (/\ tasks[t].op = "fetch" /\ tasks[t].pc \notin {"idle", "fetch_start"}
         /\ (tasks[t].ts \div HourSecs) > (tasks[t].at \div HourSecs))
            => /\ tasks[t].pc = "done"
               /\ tasks[t].ret = "ok"
               /\ tasks[t].rv = EmptyBag

C7_Witness ==
    \E t \in DOMAIN tasks :
        /\ Returned(tasks[t], "fetch", "ok")
        /\ (tasks[t].ts \div HourSecs) > (tasks[t].at \div HourSecs)
        /\ tasks[t].rv = EmptyBag
        /\ FileOf(files, current_bucket(now)) # <<>>

\* C4 (as claimed): a bucket file of whole records with matching checksums,
\* as add_ccn writes them, loads without error whatever its length: a handler
\* fails on a bucket with InvalidData only if that bucket's file is damaged.
C4_WholeRecordsLoad ==
    \A t \in DOMAIN tasks :
        (tasks[t].pc = "done" /\ tasks[t].ret = "invalid_data")
            => ~WellFormed(FileOf(files, tasks[t].i))

\* C8: the check route returns true exactly when some active code a, some
\* day k in 1..14 and some minute m in 1..1440 have the m-th TCN of the k-th
\* successor of a among the contacts; so false for no contacts and for
\* contacts outside every expansion.
C8_CheckMatches ==
    chk.pc = "done" =>
        ((chk.ret = "true") <=>
            \E j \in 1..Len(chk.active), k \in 1..CheckDays, m \in 1..CheckTcns :
                [key |-> [root |-> chk.active[j].root, gen |-> chk.active[j].gen + k],
                 n |-> m] \in chk.contacts)

C8_Witness ==
    /\ chk.pc = "done"
    /\ chk.ret = "true"
    /\ Len(chk.active) = 2
    /\ chk.active[1].root = 2
    /\ Tcn(1, CheckDays, CheckTcns) \in chk.contacts
    /\ chk.generated = 2 * CheckDays * CheckTcns

\* C11 (as claimed): a fetch_buckets that returns Ok holds each code at most
\* once, also when the code has records in two buckets of the range.
C11_FetchHoldsEachCodeOnce ==
    \A t \in DOMAIN tasks :
        Returned(tasks[t], "fetch", "ok") =>
            \A c \in BagToSet(tasks[t].rv) : CopiesIn(c, tasks[t].rv) <= 1

\* C12 (as claimed): while the file of a bucket cannot be opened for lack of
\* permission, an operation that needs the bucket fails and caches nothing
\* for it: the bucket, which was not in the map when the permission went,
\* gets no entry.
C12_OpenErrorCachesNothing == \A b \in denied : b \notin DOMAIN cache

\* C13: no step of a handler removes or alters a record of a bucket file, and
\* no step removes a bucket from the map or a code from a bucket's set, a
\* second load of a bucket that is already in the map included.
C13_AppendOnly ==
    [][/\ \A b \in DOMAIN files :
              /\ b \in DOMAIN files'
              /\ Len(files'[b]) >= Len(files[b])
              /\ SubSeq(files'[b], 1, Len(files[b])) = files[b]
       /\ \A b \in DOMAIN cache :
              b \in DOMAIN cache' /\ cache[b] \subseteq cache'[b]]_vars

C13_Witness ==
    \E t \in DOMAIN tasks :
        /\ tasks[t].pc = "get"
        /\ tasks[t].had
        /\ cache[tasks[t].i] # {}
        /\ Len(FileOf(files, tasks[t].i)) >= 1

\* C14: the i-th item of generate_ccns(c) is ratchet applied i times to c, the
\* first is ratchet(c) and not c, and two iterators made from the same code
\* yield the same items.
C14_RatchetChain ==
    /\ \A s \in 1..NumStreams :
           streams[s].kind = "ccns" =>
               \A i \in 1..Len(streams[s].out) :
                   /\ streams[s].out[i] = RatchetTimes(streams[s].src, i)
                   /\ streams[s].out[i] # streams[s].src
    /\ SameItems("ccns")

C14_Witness ==
    /\ streams[1].kind = "ccns" /\ streams[2].kind = "ccns"
    /\ streams[1].src = streams[2].src
    /\ Len(streams[1].out) = MaxItems
    /\ Len(streams[2].out) = 1

\* C15: the first item of generate_tcns(c) is the zero block encrypted under
\* the key of c, each later item is the item before it encrypted under the
\* same key (so the m-th is the zero block encrypted m times), and two
\* iterators made from the same code yield the same items whatever the
\* progress of the other.
C15_TcnStream ==
    /\ \A s \in 1..NumStreams :
           streams[s].kind = "tcns" =>
               \A i \in 1..Len(streams[s].out) :
                   /\ streams[s].out[i] =
                          EncryptBlock(streams[s].src,
                              IF i = 1 THEN ZeroBlock ELSE streams[s].out[i - 1])
                   /\ streams[s].out[i] = NthTcn(streams[s].src, i)
    /\ SameItems("tcns")

C15_Witness ==
    /\ streams[1].kind = "tcns" /\ streams[2].kind = "tcns"
    /\ streams[1].src = streams[2].src
    /\ Len(streams[1].out) = MaxItems
    /\ Len(streams[2].out) = 1

\* C16: the bytes from_bytes accepts have the length of the type, and the
\* text of an accepted value parses back to the same bytes; from_bytes
\* rejects every other length, and a text parses only if it has the length
\* of the type's encoding (43 for Ccn, 22 for Tcn).
C16_EncodingRoundTrip ==
    /\ codec.from = "bytes" =>
           /\ codec.stage = "bytes_error" <=>
                  (Len(codec.bytes) # BytesLen(codec.kind) /\ codec.stage # "bytes")
           /\ codec.stage \in {"text", "parsed"} => Len(codec.text) = TextLen(codec.kind)
           /\ codec.stage # "text_error"
           /\ codec.stage = "parsed" => codec.back = codec.bytes
    /\ codec.stage = "parsed" => Len(codec.text) = TextLen(codec.kind)

C16_Witness ==
    /\ codec.from = "bytes"
    /\ codec.kind = "ccn"
    /\ codec.stage = "parsed"
    /\ codec.bytes = Patterned(CcnLen, 255, CcnLen, 165)
    /\ codec.text[CcnTextLen] = 20

\* C17 (as claimed): a step changes the bucket files only if it is the return
\* of an add_ccn with true, and that step appends one record to the file of
\* the bucket that is current when it writes and touches no other file.
C17_WritesCurrentBucket ==
    [][/\ files' # files => \E t \in DOMAIN tasks : ReturnsAdded(t)
       /\ \A t \in DOMAIN tasks :
              ReturnsAdded(t) => AppendsOne(t, current_bucket(now))]_vars

\* C17 (amended): a step changes the bucket files only if it is the return of
\* an add_ccn with true, and that step appends one record to the file of the
\* bucket add_ccn read from the clock after has_ccn, before it took the write
\* lock, and touches no other file.
C17_WritesBucketReadBeforeLock ==
    [][/\ files' # files => \E t \in DOMAIN tasks : ReturnsAdded(t)
       /\ \A t \in DOMAIN tasks :
              ReturnsAdded(t) => AppendsOne(t, tasks[t].bkt)]_vars

C17_Witness ==
    \E t, u \in DOMAIN tasks :
        /\ Returned(tasks[t], "add", "true")
        /\ tasks[t].bkt < current_bucket(now)
        /\ Len(FileOf(files, tasks[t].bkt)) = 2
        /\ Returned(tasks[u], "fetch", "ok")
        /\ Cardinality(DOMAIN files) = 1

\* C18 (as claimed): when code c has a record in one bucket b only, has_ccn(c)
\* called while the current bucket is n returns true exactly when b is one
\* of the 21 buckets n-21 .. n-1.
C18_HasWindow ==
    \A t \in DOMAIN tasks :
        (tasks[t].pc = "done" /\ tasks[t].op = "has") =>
            \A b \in DOMAIN files :
                (\A p \in Records(files) : p[1] = tasks[t].ccn => p[2] = b)
                /\ <<tasks[t].ccn, b>> \in Records(files)
                => LET n == current_bucket(tasks[t].at)
                   IN  (tasks[t].ret = "true") <=> (n - DAYS_WINDOW <= b /\ b <= n - 1)

\* C19: the check route returns true at the first identifier it finds among
\* the contacts: the number of identifiers it has generated is the place of
\* the first hit in the order of the loops (active code, day, minute), the
\* successor codes it has taken are those up to the day of the hit, and
\* without a hit it is all of them.
C19_ShortCircuit ==
    chk.pc = "done" =>
        IF chk.ret = "true"
        THEN /\ HitPlaces # {}
             /\ chk.generated = Min(HitPlaces)
             /\ chk.codes = ((Min(HitPlaces) - 1) \div CheckTcns) + 1
        ELSE /\ HitPlaces = {}
             /\ chk.generated = Len(chk.active) * CheckDays * CheckTcns
             /\ chk.codes = Len(chk.active) * CheckDays

C19_Witness ==
    /\ chk.pc = "done"
    /\ chk.ret = "true"
    /\ Len(chk.active) = 2
    /\ chk.active[2] = [root |-> 2, gen |-> 0]
    /\ chk.contacts = {Tcn(2, 7, 700), Tcn(1, CheckDays + 1, 1)}
    /\ chk.generated = CheckDays * CheckTcns + 6 * CheckTcns + 700

\* C20: between the steps of the tasks, each of which is what one task does
\* under one acquisition of the lock, every bucket file is a sequence of
\* whole records with matching checksums and every code of a bucket's set in
\* the map has a record in the bucket's file.
C20_FilesWholeCacheBacked ==
    /\ \A b \in DOMAIN files : WellFormed(files[b])
    /\ \A b \in DOMAIN cache : cache[b] \subseteq CodesIn(FileOf(files, b))

C20_Witness ==
    \E b \in DOMAIN cache :
        /\ Cardinality(cache[b]) = 2
        /\ Len(FileOf(files, b)) = 2
        /\ \A t \in DOMAIN tasks : Returned(tasks[t], "add", "true") /\ tasks[t].bkt = b
        /\ tasks[1].had

====
